---- MODULE Spec2Model ----
(***************************************************************************)
(* A model of src/src/web.rs: the search -> fetch -> clean -> assemble     *)
(* pipeline of search_with_config, with the text functions computed on     *)
(* sequences of characters (a character is a one-character string; "NUL"   *)
(* stands for the character U+0000).                                       *)
(***************************************************************************)
EXTENDS Integers, Sequences, FiniteSets, TLC

(***************************************************************************)
(* Characters and small string helpers                                     *)
(***************************************************************************)

\* Unicode White_Space members that occur in the modelled alphabet
\* (str::trim, char::is_whitespace and the regex class \s agree on them).
WS == {" ", "\t", "\n", "\r"}

Take(s, n) == IF n >= Len(s) THEN s ELSE SubSeq(s, 1, n)

Drop(s, n) == IF n >= Len(s) THEN <<>> ELSE SubSeq(s, n + 1, Len(s))

\* First index j >= i with s[j] \notin WS, or Len(s)+1.
RECURSIVE SkipWs(_, _)
SkipWs(s, i) ==
    IF i > Len(s) THEN Len(s) + 1
    ELSE IF s[i] \in WS THEN SkipWs(s, i + 1) ELSE i

\* First index j >= i with s[j] = c, or Len(s)+1.
RECURSIVE FindChar(_, _, _)
FindChar(s, i, c) ==
    IF i > Len(s) THEN Len(s) + 1
    ELSE IF s[i] = c THEN i ELSE FindChar(s, i + 1, c)

\* Last index j <= i with s[j] \notin WS, or 0.
RECURSIVE SkipWsBack(_, _)
SkipWsBack(s, i) ==
    IF i < 1 THEN 0
    ELSE IF s[i] \in WS THEN SkipWsBack(s, i - 1) ELSE i

\* str::trim_start
TrimStart(s) == Drop(s, SkipWs(s, 1) - 1)

\* str::trim
Trim(s) ==
    LET a == SkipWs(s, 1)
        b == SkipWsBack(s, Len(s))
    IN  IF a > b THEN <<>> ELSE SubSeq(s, a, b)

\* char::len_utf8 of the modelled characters: "E2", "E3", "E4" stand for one
\* character of 2, 3 and 4 bytes; every other modelled character is ASCII.
Utf8Len(c) == IF c = "E2" THEN 2 ELSE IF c = "E3" THEN 3 ELSE IF c = "E4" THEN 4 ELSE 1

\* str::len (bytes): the sum of the characters' lengths, taken by halves.
RECURSIVE ByteLen(_)
ByteLen(s) ==
    IF s = <<>> THEN 0
    ELSE IF Len(s) = 1 THEN Utf8Len(s[1])
    ELSE LET h == Len(s) \div 2
         IN  ByteLen(SubSeq(s, 1, h)) + ByteLen(SubSeq(s, h + 1, Len(s)))

(***************************************************************************)
(* truncate_at_char_boundary                                               *)
(***************************************************************************)

\* The loop advancing end_byte by one byte per character.
RECURSIVE EndByteLoopOneByte(_, _, _, _)
EndByteLoopOneByte(s, max_chars, count, end_byte) ==
    IF s = <<>> \/ count >= max_chars THEN end_byte
    ELSE EndByteLoopOneByte(Tail(s), max_chars, count + 1, end_byte + 1)

\* The loop of lines 419-427: end_byte after at most max_chars characters.
RECURSIVE EndByteLoop(_, _, _, _)
EndByteLoop(s, max_chars, count, end_byte) ==
    IF s = <<>> \/ count >= max_chars THEN end_byte
    ELSE EndByteLoop(Tail(s), max_chars, count + 1, end_byte + Utf8Len(Head(s)))

\* s[..end_byte]: the characters that end at or before byte end_byte.
RECURSIVE ByteSlice(_, _)
ByteSlice(s, end_byte) ==
    IF s = <<>> \/ Utf8Len(Head(s)) > end_byte THEN <<>>
    ELSE <<Head(s)>> \o ByteSlice(Tail(s), end_byte - Utf8Len(Head(s)))

TruncateAtCharBoundary(s, max_chars) ==
    IF Len(s) <= max_chars THEN s
    ELSE ByteSlice(s, EndByteLoop(s, max_chars, 0, 0))

\* "\n\n[...truncated...]\n"
TruncMarker ==
    <<"\n", "\n", "[", ".", ".", ".", "t", "r", "u", "n", "c", "a", "t", "e", "d",
      ".", ".", ".", "]", "\n">>

(***************************************************************************)
(* clean_markdown_for_llm                                                  *)
(***************************************************************************)

\* md.replace("\r\n", "\n")
RECURSIVE ReplaceCrLf(_)
ReplaceCrLf(s) ==
    IF s = <<>> THEN <<>>
    ELSE IF Len(s) >= 2 /\ s[1] = "\r" /\ s[2] = "\n"
         THEN <<"\n">> \o ReplaceCrLf(Drop(s, 2))
         ELSE <<Head(s)>> \o ReplaceCrLf(Tail(s))

\* .replace('\0', "")
RemoveNul(s) == SelectSeq(s, LAMBDA c : c # "NUL")

\* Case folding of the letters of "data:image" ((?i) of RE_DATA_IMG).
Lower(c) ==
    CASE c = "D" -> "d" [] c = "A" -> "a" [] c = "T" -> "t" [] c = "I" -> "i"
      [] c = "M" -> "m" [] c = "G" -> "g" [] c = "E" -> "e" [] OTHER -> c

DataImgPrefix == <<"(", "d", "a", "t", "a", ":", "i", "m", "a", "g", "e", "/">>

ImageOmitted == <<"(", "i", "m", "a", "g", "e", " ", "o", "m", "i", "t", "t", "e", "d", ")">>

StartsWithDataImg(s) ==
    /\ Len(s) >= Len(DataImgPrefix)
    /\ \A i \in 1..Len(DataImgPrefix) : Lower(s[i]) = DataImgPrefix[i]

\* RE_DATA_IMG.replace_all(&s, "(image omitted)"): leftmost, non-overlapping
\* matches of \(data:image/[^)]*\).
RECURSIVE ReplaceDataImg(_)
ReplaceDataImg(s) ==
    IF s = <<>> THEN <<>>
    ELSE IF StartsWithDataImg(s)
            /\ FindChar(s, Len(DataImgPrefix) + 1, ")") <= Len(s)
         THEN ImageOmitted
              \o ReplaceDataImg(Drop(s, FindChar(s, Len(DataImgPrefix) + 1, ")")))
         ELSE <<Head(s)>> \o ReplaceDataImg(Tail(s))

\* str::lines: split at "\n", a line's "\r" before the "\n" is dropped, no
\* empty last line.
StripCr(l) == IF l # <<>> /\ l[Len(l)] = "\r" THEN SubSeq(l, 1, Len(l) - 1) ELSE l

RECURSIVE LinesFrom(_, _)
LinesFrom(s, cur) ==
    IF s = <<>> THEN (IF cur = <<>> THEN <<>> ELSE <<cur>>)
    ELSE IF Head(s) = "\n" THEN <<StripCr(cur)>> \o LinesFrom(Tail(s), <<>>)
    ELSE LinesFrom(Tail(s), Append(cur, Head(s)))

Lines(s) == LinesFrom(s, <<>>)

\* Pass 1 (lines 308-313): lines longer than max_line_len are dropped.
KeepLineLen(line, max_line_len) == Len(line) <= max_line_len

DropLongLines(lines, max_line_len) ==
    SelectSeq(lines, LAMBDA l : KeepLineLen(l, max_line_len))

\* RE_LINK_ONLY.is_match: ^\s*[-*+]\s+\[[^\]]+\]\([^)]+\)\s*$
IsLinkOnly(l) ==
    LET i1 == SkipWs(l, 1)
        i2 == SkipWs(l, i1 + 1)
        i3 == FindChar(l, i2 + 1, "]")
        i4 == FindChar(l, i3 + 2, ")")
    IN  /\ i1 <= Len(l) /\ l[i1] \in {"-", "*", "+"}
        /\ i2 > i1 + 1
        /\ i2 <= Len(l) /\ l[i2] = "["
        /\ i3 > i2 + 1
        /\ i3 + 1 <= Len(l) /\ l[i3 + 1] = "("
        /\ i4 > i3 + 2
        /\ i4 <= Len(l)
        /\ SkipWs(l, i4 + 1) = Len(l) + 1

\* flush_run with > for >=: a run of exactly the threshold is kept whole.
FlushRunStrict(run, out, threshold, keep) ==
    IF Len(run) > threshold THEN out \o Take(run, keep) ELSE out \o run

\* The closure flush_run (lines 319-328).
FlushRun(run, out, threshold, keep) ==
    IF Len(run) >= threshold THEN out \o Take(run, keep) ELSE out \o run

\* Pass 2 (lines 330-338).
RECURSIVE PruneLoop(_, _, _, _, _)
PruneLoop(lines, run, pruned, threshold, keep) ==
    IF lines = <<>> THEN FlushRun(run, pruned, threshold, keep)
    ELSE IF IsLinkOnly(Head(lines))
         THEN PruneLoop(Tail(lines), Append(run, Head(lines)), pruned, threshold, keep)
         ELSE PruneLoop(Tail(lines), <<>>,
                        Append(FlushRun(run, pruned, threshold, keep), Head(lines)),
                        threshold, keep)

PruneLinkFarms(lines, threshold, keep) == PruneLoop(lines, <<>>, <<>>, threshold, keep)

IsBlankLine(l) == Trim(l) = <<>>

\* Pass 3 (lines 341-355).
RECURSIVE NormalizeLoop(_, _, _)
NormalizeLoop(lines, blank_run, normalized) ==
    IF lines = <<>> THEN normalized
    ELSE IF IsBlankLine(Head(lines))
         THEN NormalizeLoop(Tail(lines), blank_run + 1,
                            IF blank_run + 1 <= 2 THEN Append(normalized, "\n")
                            ELSE normalized)
         ELSE NormalizeLoop(Tail(lines), 0, normalized \o Head(lines) \o <<"\n">>)

\* Pass 4 (lines 358-362).
CapWithMarker(s, max_md_chars) ==
    IF Len(s) > max_md_chars
    THEN TruncateAtCharBoundary(s, max_md_chars) \o TruncMarker
    ELSE s

CleanMarkdownForLlm(md, cfg) ==
    LET s      == ReplaceDataImg(RemoveNul(ReplaceCrLf(md)))
        lines  == DropLongLines(Lines(s), cfg.max_line_len)
        pruned == PruneLinkFarms(lines, cfg.link_farm_run_threshold,
                                 cfg.max_link_lines_to_keep)
    IN  CapWithMarker(Trim(NormalizeLoop(pruned, 0, <<>>)), cfg.max_md_chars)

(***************************************************************************)
(* extract_outline                                                         *)
(***************************************************************************)

\* rest.len() <= 120 (bytes), line 404.
OutlineMaxHeadingBytes == 120

\* Number of leading '#' of t (lines 377-384).
RECURSIVE HashCount(_)
HashCount(t) == IF t # <<>> /\ Head(t) = "#" THEN 1 + HashCount(Tail(t)) ELSE 0

\* The heading text of one line: t[cut..].trim() (lines 371-403).
HeadingRest(line) == LET t == TrimStart(line) IN Trim(Drop(t, HashCount(t)))

IsHeading(line) ==
    LET t == TrimStart(line)
    IN  /\ t # <<>> /\ Head(t) = "#"
        /\ HeadingRest(line) # <<>>
        /\ ByteLen(HeadingRest(line)) <= OutlineMaxHeadingBytes

RECURSIVE OutlineLoop(_, _, _)
OutlineLoop(lines, out, max_items) ==
    IF lines = <<>> THEN out
    ELSE IF IsHeading(Head(lines))
         THEN LET pushed == Append(out, HeadingRest(Head(lines)))
              IN  IF Len(pushed) >= max_items THEN pushed
                  ELSE OutlineLoop(Tail(lines), pushed, max_items)
         ELSE OutlineLoop(Tail(lines), out, max_items)

ExtractOutline(md, max_items) == OutlineLoop(Lines(md), <<>>, max_items)

(***************************************************************************)
(* crawl_to_llm_markdown, after the body was read and converted            *)
(***************************************************************************)

\* Option<String>
NoTitle == [some |-> FALSE, val |-> <<>>]

SomeTitle(t) == [some |-> TRUE, val |-> t]

\* The inferred title taken before the title of the search result.
PageTitleOutlineFirst(title_from_search, outline) ==
    IF outline # <<>> THEN SomeTitle(outline[1]) ELSE title_from_search

\* title_from_search.or(inferred_title), lines 220-221.
PageTitle(title_from_search, outline) ==
    IF title_from_search.some THEN title_from_search
    ELSE IF outline # <<>> THEN SomeTitle(outline[1]) ELSE NoTitle

DigitChar == <<"0", "1", "2", "3", "4", "5", "6", "7", "8", "9">>

\* format!("{status}") of a u16.
RECURSIVE Decimal(_)
Decimal(n) ==
    IF n < 10 THEN <<DigitChar[n + 1]>>
    ELSE Append(Decimal(n \div 10), DigitChar[(n % 10) + 1])

FrontMatterFence == <<"-", "-", "-", "\n">>

QueryKey == <<"q", "u", "e", "r", "y", ":", " ">>

UrlKey == <<"u", "r", "l", ":", " ">>

StatusKey == <<"s", "t", "a", "t", "u", "s", ":", " ">>

TitleKey == <<"t", "i", "t", "l", "e", ":", " ">>

OutlineHeader == <<"#", "#", " ", "O", "u", "t", "l", "i", "n", "e", "\n">>

ContentHeader == <<"#", "#", " ", "C", "o", "n", "t", "e", "n", "t", "\n", "\n">>

RECURSIVE OutlineBullets(_)
OutlineBullets(outline) ==
    IF outline = <<>> THEN <<>>
    ELSE <<"-", " ">> \o Head(outline) \o <<"\n">> \o OutlineBullets(Tail(outline))

\* Lines 224-245: front matter, outline section, content section.
AssembleMd(query, url, status, title, outline, md) ==
    FrontMatterFence
    \o QueryKey \o query \o <<"\n">>
    \o UrlKey \o url \o <<"\n">>
    \o StatusKey \o Decimal(status) \o <<"\n">>
    \o (IF title.some THEN TitleKey \o title.val \o <<"\n">> ELSE <<>>)
    \o FrontMatterFence \o <<"\n">>
    \o (IF outline # <<>> THEN OutlineHeader \o OutlineBullets(outline) \o <<"\n">>
        ELSE <<>>)
    \o ContentHeader
    \o md

\* The final cap pushing the marker without cutting the text first.
FinalCapAppendOnly(final_md, max_md_chars) ==
    IF Len(final_md) > max_md_chars THEN final_md \o TruncMarker ELSE final_md

\* Lines 247-251: the final cap.
FinalCap(final_md, max_md_chars) ==
    IF Len(final_md) > max_md_chars
    THEN TruncateAtCharBoundary(final_md, max_md_chars) \o TruncMarker
    ELSE final_md

\* The filter with <= for <: a text of exactly min_md_chars is dropped.
TooShortInclusive(md, min_md_chars) == Len(md) <= min_md_chars

\* Line 214: the minimum-length filter on the cleaned text.
TooShort(md, min_md_chars) == Len(md) < min_md_chars

\* Results of a task: Ok(Some(page)), Ok(None), Err(e).
ResErr == [kind |-> "err"]

ResNone == [kind |-> "none"]

ResPage(p) == [kind |-> "page", page |-> p]

\* Lines 209-260. converted is the text parse_html returned for the body:
\* the byte cap of line 194, the lossy decoding, extract_main_content_html
\* and strip_script_style_noscript act before parse_html, an external
\* converter, so the text it returns is an input of the model.
CrawlBody(query, url, status, title_from_search, converted, cfg) ==
    LET md      == CleanMarkdownForLlm(converted, cfg)
        outline == ExtractOutline(md, cfg.max_outline_headings)
        title   == PageTitle(title_from_search, outline)
    IN  IF TooShort(md, cfg.min_md_chars) THEN ResNone
        ELSE ResPage([query    |-> query,
                      url      |-> url,
                      status   |-> status,
                      title    |-> title,
                      outline  |-> outline,
                      markdown |-> FinalCap(AssembleMd(query, url, status, title,
                                                       outline, md),
                                            cfg.max_md_chars)])

\* The status filter without its flag.
StatusDroppedUnflagged(cfg, status) == ~(status >= 200 /\ status <= 299)

\* Line 172: the status filter.
StatusDropped(cfg, status) ==
    cfg.drop_non_success_status /\ ~(status >= 200 /\ status <= 299)

\* The header values of the model: ctype is the Content-Type value, "absent"
\* when the response has none; text/html is searched after lowercasing.
HtmlContentTypes == {"text/html", "TEXT/HTML; charset=utf-8"}

\* The content-type filter without its flag.
ContentTypeDroppedUnflagged(cfg, ctype) == ctype \notin HtmlContentTypes

\* Lines 176-187: the content-type filter.
ContentTypeDropped(cfg, ctype) ==
    cfg.require_html_content_type /\ ctype \notin HtmlContentTypes

(***************************************************************************)
(* Bounds and input sets of the model                                      *)
(***************************************************************************)

\* The values of cfg.concurrency: no permit, fewer permits than jobs (the
\* provider answers name two URLs, so there are at most two jobs), a permit
\* for every job.
Concurrencies == {0, 1, 2}

\* results_per_query is 0 or MaxResults; a provider answer has at most
\* results_per_query entries, so the answers under MaxResults include those
\* under every smaller value.
MaxResults == 2

ResultsPerQuery == {0, MaxResults}

\* max_md_chars and min_md_chars of the pipeline runs.
PipelineMaxMd == 60

PipelineMinMd == 2

\* The query lists of the pipeline runs: empty, one query, two queries.
QueryLists == {<<>>, <<<<"p">>>>, <<<<"p">>, <<"q">>>>}

\* The (url, title) pairs a provider answer is made of: one URL comes with a
\* real title or a blank one.
ProviderResults ==
    { [url |-> <<"u">>, title |-> <<"T">>],
      [url |-> <<"u">>, title |-> <<" ">>],
      [url |-> <<"v">>, title |-> <<"T">>] }

Statuses == {200, 404}

ContentTypes == {"TEXT/HTML; charset=utf-8", "application/json", "absent"}

\* Texts parse_html returns in the pipeline runs.
ConvertedBodies == { <<"a">>, <<"a", "b", "c", "d", "e", "f", "g", "h">> }

SeqsUpTo(S, n) == UNION {[1..k -> S] : k \in 0..n}

PipelineConfigs ==
    [concurrency               : Concurrencies,
     require_html_content_type : BOOLEAN,
     drop_non_success_status   : BOOLEAN,
     max_md_chars              : {PipelineMaxMd},
     min_md_chars              : {PipelineMinMd},
     max_link_lines_to_keep    : {1},
     link_farm_run_threshold   : {2},
     max_line_len              : {20},
     max_outline_headings      : {2}]

(***************************************************************************)
(* State                                                                   *)
(***************************************************************************)

VARIABLES
    cfg,                \* the LlmCleanConfig of the call
    queries,            \* the query list of the call
    results_per_query,
    pc,                 \* position of search_with_config
    qi,                 \* index of the next query of the loop of line 91
    results,            \* the provider's answer in the last iteration of that
                        \* loop (<<>> before the loop and after it)
    jobs,               \* Vec<(query, url, title)>
    seen_urls,          \* HashSet<String>
    tasks,              \* the spawned tasks of the JoinSet, in spawn order
    permits,            \* available permits of sem
    out,                \* Vec<MdPage>
    ret,                \* "none" (running), "ok", "err"
    provider_calls,     \* history, per web_search call: "err" when it failed,
                        \* "dup" when the dedup loop discarded a result, else "ok"
    conv_in,            \* a text handed to the text functions (under cfg)
    conv_stage,         \* position of the text-function run
    pass1,              \* the lines left by pass 1 of the cleaner (lines 308-313)
    pass2,              \* the lines left by pass 2 of the cleaner (lines 316-338)
    cleaned,            \* clean_markdown_for_llm(conv_in)
    recleaned,          \* clean_markdown_for_llm(cleaned)
    crawled,            \* the result of crawl_to_llm_markdown on conv_in
    truncated,          \* truncate_at_char_boundary(conv_in, cfg.max_md_chars)
    end_byte,           \* the byte index at which that call cut conv_in
    html_doc,           \* a parsed document: the child elements of its body
    extracted,          \* extract_main_content_html of that document
    extracted_html      \* the markup line 203 hands on

pipeVars ==
    <<cfg, queries, results_per_query, pc, qi, results, jobs, seen_urls, tasks,
      permits, out, ret, provider_calls>>

convVars == <<conv_in, conv_stage, pass1, pass2, cleaned, recleaned, crawled>>

truncVars == <<truncated, end_byte>>

extractVars == <<html_doc, extracted, extracted_html>>

fnVars == <<truncVars, extractVars>>

vars == <<pipeVars, convVars, fnVars>>

ConvIdle ==
    /\ conv_in = <<>>
    /\ conv_stage = "idle"
    /\ pass1 = <<>>
    /\ pass2 = <<>>
    /\ cleaned = <<>>
    /\ recleaned = <<>>
    /\ crawled = ResNone

\* Option<String>
NoExtraction == [some |-> FALSE, val |-> <<>>]

Extraction(t) == [some |-> TRUE, val |-> t]

TruncIdle ==
    /\ truncated = <<>>
    /\ end_byte = 0

ExtractIdle ==
    /\ html_doc = <<>>
    /\ extracted = NoExtraction
    /\ extracted_html = <<>>

FnIdle == TruncIdle /\ ExtractIdle

Init ==
    /\ cfg \in PipelineConfigs
    /\ queries \in QueryLists
    /\ results_per_query \in ResultsPerQuery
    /\ pc = "start"
    /\ qi = 1
    /\ results = <<>>
    /\ jobs = <<>>
    /\ seen_urls = {}
    /\ tasks = <<>>
    /\ permits = 0
    /\ out = <<>>
    /\ ret = "none"
    /\ provider_calls = <<>>
    /\ ConvIdle
    /\ FnIdle

(***************************************************************************)
(* search_with_config: the search stage                                    *)
(***************************************************************************)

\* The early return taken for an empty query list only.
ShortCircuitQueriesOnly(qs, rpq) == qs = <<>>

\* Lines 83-85.
ShortCircuit(qs, rpq) == qs = <<>> \/ rpq = 0

Begin ==
    /\ pc = "start"
    /\ IF ShortCircuit(queries, results_per_query)
       THEN pc' = "done" /\ ret' = "ok"
       ELSE pc' = "search" /\ ret' = ret
    /\ UNCHANGED <<cfg, queries, results_per_query, results, qi, jobs, seen_urls, tasks,
                   permits, out, provider_calls>>
    /\ UNCHANGED convVars
    /\ UNCHANGED fnVars

\* Lines 106-110.
TitleOpt(title) == IF Trim(title) = <<>> THEN NoTitle ELSE SomeTitle(title)

\* The result of insert ignored: every result becomes a job.
IsNewUrlIgnored(seen, url) == TRUE

\* seen_urls.insert(url): whether the URL is new (line 104).
IsNewUrl(seen, url) == url \notin seen

\* The dedup loop letting a later occurrence of a URL overwrite the job's
\* query and title.
RECURSIVE DedupLoopLastWins(_, _, _, _)
DedupLoopLastWins(rs, q, js, seen) ==
    IF rs = <<>> THEN [jobs |-> js, seen |-> seen]
    ELSE LET r == Head(rs)
             j == [query |-> q, url |-> r.url, title |-> TitleOpt(r.title)]
         IN  IF IsNewUrl(seen, r.url)
             THEN DedupLoopLastWins(Tail(rs), q, Append(js, j), seen \cup {r.url})
             ELSE DedupLoopLastWins(Tail(rs), q,
                                    [n \in 1..Len(js) |->
                                        IF js[n].url = r.url THEN j ELSE js[n]],
                                    seen)

\* Lines 103-113: the dedup loop over one provider answer.
RECURSIVE DedupLoop(_, _, _, _)
DedupLoop(rs, q, js, seen) ==
    IF rs = <<>> THEN [jobs |-> js, seen |-> seen]
    ELSE LET r == Head(rs)
         IN  IF IsNewUrl(seen, r.url)
             THEN DedupLoop(Tail(rs), q,
                            Append(js, [query |-> q, url |-> r.url,
                                        title |-> TitleOpt(r.title)]),
                            seen \cup {r.url})
             ELSE DedupLoop(Tail(rs), q, js, seen)

\* Lines 94-113 when web_search returns Ok(results).
SearchOk ==
    /\ pc = "search"
    /\ qi <= Len(queries)
    /\ \E answer \in SeqsUpTo(ProviderResults, results_per_query) :
          LET d == DedupLoop(answer, queries[qi], jobs, seen_urls)
          IN  /\ results' = answer
              /\ jobs' = d.jobs
              /\ seen_urls' = d.seen
              /\ provider_calls' =
                    Append(provider_calls,
                           IF Len(d.jobs) - Len(jobs) < Len(answer) THEN "dup" ELSE "ok")
    /\ qi' = qi + 1
    /\ UNCHANGED <<cfg, queries, results_per_query, pc, tasks, permits, out, ret>>
    /\ UNCHANGED convVars
    /\ UNCHANGED fnVars

\* A failed provider call skipped instead of propagated.
SkipProviderError == [pc |-> "search", ret |-> "none", qi_step |-> 1]

\* Line 101: map_err(...)? on a failed provider call.
AfterProviderError == [pc |-> "done", ret |-> "err", qi_step |-> 0]

SearchErr ==
    /\ pc = "search"
    /\ qi <= Len(queries)
    /\ pc' = AfterProviderError.pc
    /\ ret' = AfterProviderError.ret
    /\ qi' = qi + AfterProviderError.qi_step
    /\ provider_calls' = Append(provider_calls, "err")
    /\ results' = <<>>
    /\ UNCHANGED <<cfg, queries, results_per_query, jobs, seen_urls, tasks, permits,
                   out>>
    /\ UNCHANGED convVars
    /\ UNCHANGED fnVars

\* The search loop left after its first query.
SearchLoopDoneEarly(i, qs) == i > 1

\* The for loop of line 91 has taken every query of the list.
SearchLoopDone(i, qs) == i > Len(qs)

\* Lines 116-118: no jobs.
NoJobs ==
    /\ pc = "search"
    /\ SearchLoopDone(qi, queries)
    /\ jobs = <<>>
    /\ pc' = "done"
    /\ ret' = "ok"
    /\ results' = <<>>
    /\ UNCHANGED <<cfg, queries, results_per_query, qi, jobs, seen_urls, tasks, permits,
                   out, provider_calls>>
    /\ UNCHANGED convVars
    /\ UNCHANGED fnVars

\* Lines 121-130: the client is built, the semaphore and the JoinSet created.
BuildClientOk ==
    /\ pc = "search"
    /\ SearchLoopDone(qi, queries)
    /\ jobs # <<>>
    /\ pc' = "spawn"
    /\ permits' = cfg.concurrency
    /\ results' = <<>>
    /\ UNCHANGED <<cfg, queries, results_per_query, qi, jobs, seen_urls, tasks, out,
                   ret, provider_calls>>
    /\ UNCHANGED convVars
    /\ UNCHANGED fnVars

\* Line 127: Client::builder().build() fails.
BuildClientErr ==
    /\ pc = "search"
    /\ SearchLoopDone(qi, queries)
    /\ jobs # <<>>
    /\ pc' = "done"
    /\ ret' = "err"
    /\ results' = <<>>
    /\ UNCHANGED <<cfg, queries, results_per_query, qi, jobs, seen_urls, tasks, permits,
                   out, provider_calls>>
    /\ UNCHANGED convVars
    /\ UNCHANGED fnVars

(***************************************************************************)
(* search_with_config: the fetch stage                                     *)
(***************************************************************************)

\* A task: its position, the URL of the job moved into it, the number of
\* GET requests it has sent, what it has observed of the response (status 0
\* before the response head arrived; ctype "none" before it and when line
\* 173 returned without looking at the headers; body.state "unread" until
\* resp.bytes() is awaited, then "failed" or "read", body.text being what
\* parse_html made of the bytes), and its result.
NoBody == [state |-> "unread", text |-> <<>>]

NewTask == [pc |-> "waiting", url |-> <<>>, gets |-> 0, status |-> 0, ctype |-> "none",
            body |-> NoBody, res |-> ResNone]

\* Lines 132-141: one task is spawned per job, in job order.
Spawn ==
    /\ pc = "spawn"
    /\ Len(tasks) < Len(jobs)
    /\ tasks' = Append(tasks, [NewTask EXCEPT !.url = jobs[Len(tasks) + 1].url])
    /\ UNCHANGED <<cfg, queries, results_per_query, results, pc, qi, jobs, seen_urls,
                   permits, out, ret, provider_calls>>
    /\ UNCHANGED convVars
    /\ UNCHANGED fnVars

\* The loop of line 132 ends; the main task goes on to join_next (line 144).
SpawnDone ==
    /\ pc = "spawn"
    /\ Len(tasks) = Len(jobs)
    /\ pc' = "join"
    /\ UNCHANGED <<cfg, queries, results_per_query, results, qi, jobs, seen_urls, tasks,
                   permits, out, ret, provider_calls>>
    /\ UNCHANGED convVars
    /\ UNCHANGED fnVars

\* sem.acquire() completes only when a permit is available (line 138).
CanAcquire(p) == p > 0

Acquire(i) ==
    /\ tasks[i].pc = "waiting"
    /\ CanAcquire(permits)
    /\ permits' = permits - 1
    /\ tasks' = [tasks EXCEPT ![i].pc = "holding"]
    /\ UNCHANGED <<cfg, queries, results_per_query, results, pc, qi, jobs, seen_urls,
                   out, ret, provider_calls>>
    /\ UNCHANGED convVars
    /\ UNCHANGED fnVars

\* The permit given back only by a task that did not fail.
PermitsLeakOnErr(p, res) == IF res.kind = "err" THEN p ELSE p + 1

\* The async block of lines 137-140 ends: _permit is dropped with the result.
PermitsAfterFinish(p, res) == p + 1

\* A failed send() tried once more before the task gives up.
SendFailedRetry(t) ==
    IF t.gets = 0 THEN [pc |-> "holding", res |-> ResNone]
    ELSE [pc |-> "done", res |-> ResErr]

\* Line 168: the ? on a failed send() ends the task with Err.
SendFailed(t) == [pc |-> "done", res |-> ResErr]

\* Lines 163-168: send() fails (network error, timeout).
SendErr(i) ==
    /\ tasks[i].pc = "holding"
    /\ LET f == SendFailed(tasks[i])
       IN  /\ tasks' = [tasks EXCEPT ![i].gets = @ + 1, ![i].pc = f.pc, ![i].res = f.res]
           /\ permits' = IF f.pc = "done" THEN PermitsAfterFinish(permits, f.res)
                         ELSE permits
    /\ UNCHANGED <<cfg, queries, results_per_query, results, pc, qi, jobs, seen_urls,
                   out, ret, provider_calls>>
    /\ UNCHANGED convVars
    /\ UNCHANGED fnVars

\* Lines 163-187: the response head arrives; the status and content-type
\* filters run before the body is read.
SendOk(i) ==
    /\ tasks[i].pc = "holding"
    /\ \E status \in Statuses, ctype \in ContentTypes :
          IF StatusDropped(cfg, status)
          THEN \* line 173: returned before the headers are looked at
               /\ tasks' = [tasks EXCEPT ![i].gets = @ + 1, ![i].status = status,
                                         ![i].pc = "done", ![i].res = ResNone]
               /\ permits' = PermitsAfterFinish(permits, ResNone)
          ELSE LET seen == [tasks EXCEPT ![i].gets = @ + 1, ![i].status = status,
                                         ![i].ctype = ctype]
               IN  IF ContentTypeDropped(cfg, ctype)
                   THEN /\ tasks' = [seen EXCEPT ![i].pc = "done", ![i].res = ResNone]
                        /\ permits' = PermitsAfterFinish(permits, ResNone)
                   ELSE /\ tasks' = [seen EXCEPT ![i].pc = "reading"]
                        /\ permits' = permits
    /\ UNCHANGED <<cfg, queries, results_per_query, results, pc, qi, jobs, seen_urls,
                   out, ret, provider_calls>>
    /\ UNCHANGED convVars
    /\ UNCHANGED fnVars

\* Lines 189-192: resp.bytes() fails.
ReadErr(i) ==
    /\ tasks[i].pc = "reading"
    /\ tasks' = [tasks EXCEPT ![i].pc = "done", ![i].res = ResErr,
                              ![i].body = [state |-> "failed", text |-> <<>>]]
    /\ permits' = PermitsAfterFinish(permits, ResErr)
    /\ UNCHANGED <<cfg, queries, results_per_query, results, pc, qi, jobs, seen_urls,
                   out, ret, provider_calls>>
    /\ UNCHANGED convVars
    /\ UNCHANGED fnVars

\* Lines 189-260: the body is read, converted, cleaned and assembled.
ReadOk(i) ==
    /\ tasks[i].pc = "reading"
    /\ \E converted \in ConvertedBodies :
          LET res == CrawlBody(jobs[i].query, jobs[i].url, tasks[i].status,
                               jobs[i].title, converted, cfg)
          IN  /\ tasks' = [tasks EXCEPT ![i].pc = "done", ![i].res = res,
                                        ![i].body = [state |-> "read", text |-> converted]]
              /\ permits' = PermitsAfterFinish(permits, res)
    /\ UNCHANGED <<cfg, queries, results_per_query, results, pc, qi, jobs, seen_urls,
                   out, ret, provider_calls>>
    /\ UNCHANGED convVars
    /\ UNCHANGED fnVars

\* The join loop propagating a task's error (as with ?).
JoinHandleAbortOnErr(res, o) ==
    [out   |-> IF res.kind = "page" THEN Append(o, res.page) ELSE o,
     abort |-> res.kind = "err"]

\* Lines 145-150: what the join loop does with one task result.
JoinHandle(res, o) ==
    [out   |-> IF res.kind = "page" THEN Append(o, res.page) ELSE o,
     abort |-> FALSE]

\* Line 144: join_next() yields a finished task.
JoinNext(i) ==
    /\ pc = "join"
    /\ tasks[i].pc = "done"
    /\ LET h == JoinHandle(tasks[i].res, out)
       IN  /\ out' = h.out
           /\ pc' = IF h.abort THEN "done" ELSE pc
           /\ ret' = IF h.abort THEN "err" ELSE ret
    /\ tasks' = [tasks EXCEPT ![i].pc = "joined"]
    /\ UNCHANGED <<cfg, queries, results_per_query, results, qi, jobs, seen_urls,
                   permits, provider_calls>>
    /\ UNCHANGED convVars
    /\ UNCHANGED fnVars

\* Lines 144, 153: the JoinSet is empty, Ok(out) is returned.
Return ==
    /\ pc = "join"
    /\ \A i \in 1..Len(tasks) : tasks[i].pc = "joined"
    /\ pc' = "done"
    /\ ret' = "ok"
    /\ UNCHANGED <<cfg, queries, results_per_query, results, qi, jobs, seen_urls, tasks,
                   permits, out, provider_calls>>
    /\ UNCHANGED convVars
    /\ UNCHANGED fnVars

TaskStep(i) ==
    \/ Acquire(i)
    \/ SendErr(i)
    \/ SendOk(i)
    \/ ReadErr(i)
    \/ ReadOk(i)
    \/ JoinNext(i)

Next ==
    \/ Begin
    \/ SearchOk
    \/ SearchErr
    \/ NoJobs
    \/ BuildClientOk
    \/ BuildClientErr
    \/ Spawn
    \/ SpawnDone
    \/ \E i \in 1..Len(tasks) : TaskStep(i)
    \/ Return

Spec == Init /\ [][Next]_vars

(***************************************************************************)
(* The text functions on their own: clean_markdown_for_llm applied to a    *)
(* text and again to its own output, and crawl_to_llm_markdown from the    *)
(* point where parse_html returned that text.                              *)
(***************************************************************************)

\* A text has at most MaxTextLines lines.
MaxTextLines == 3

\* min_md_chars of the text runs.
TextMinMd == 4

LinkA == <<"-", " ", "[", "a", "]", "(", "b", ")">>

LinkC == <<"*", " ", "[", "c", "]", "(", "d", ")">>

\* The lines texts are made of: empty, plain, indented, two link-only bullets,
\* a bullet link followed by text, a heading, a line over max_line_len.
LineShapes ==
    { <<>>,
      <<"a">>,
      <<" ", " ", "b">>,
      LinkA,
      LinkC,
      LinkA \o <<" ", "x">>,
      <<"#", " ", "H">>,
      <<"l", "o", "n", "g", "l", "o", "n", "g", "l", "o", "n", "g", "l", "o", "n", "g",
        "l", "o", "n", "g", "!">> }

RECURSIVE JoinLines(_)
JoinLines(ls) ==
    IF ls = <<>> THEN <<>>
    ELSE IF Len(ls) = 1 THEN ls[1]
    ELSE Head(ls) \o <<"\n">> \o JoinLines(Tail(ls))

TextInputs == {JoinLines(ls) : ls \in SeqsUpTo(LineShapes, MaxTextLines)}

\* A configuration under which no text of the model is cut by the cap.
TextBaseConfig ==
    [concurrency               |-> 1,
     require_html_content_type |-> TRUE,
     drop_non_success_status   |-> TRUE,
     max_md_chars              |-> 400,
     min_md_chars              |-> TextMinMd,
     max_link_lines_to_keep    |-> 1,
     link_farm_run_threshold   |-> 2,
     max_line_len              |-> 20,
     max_outline_headings      |-> 2]

\* The configurations of the text runs: the base one, one keeping whole
\* link runs, one with no outline heading allowed, and caps that cut the
\* cleaned text (3, 4) or the front matter of the assembled text (37, 38).
TextConfigs ==
    {TextBaseConfig,
     [TextBaseConfig EXCEPT !.max_link_lines_to_keep = 3],
     [TextBaseConfig EXCEPT !.max_outline_headings = 0]}
        \cup {[TextBaseConfig EXCEPT !.max_md_chars = m] : m \in {3, 4, 37, 38}}

TextInit ==
    /\ cfg \in TextConfigs
    /\ queries = <<>>
    /\ results_per_query = 0
    /\ pc = "text"
    /\ qi = 1
    /\ results = <<>>
    /\ jobs = <<>>
    /\ seen_urls = {}
    /\ tasks = <<>>
    /\ permits = 0
    /\ out = <<>>
    /\ ret = "none"
    /\ provider_calls = <<>>
    /\ conv_in \in TextInputs
    /\ conv_stage = "start"
    /\ pass1 = <<>>
    /\ pass2 = <<>>
    /\ cleaned = <<>>
    /\ recleaned = <<>>
    /\ crawled = ResNone
    /\ FnIdle

\* clean_markdown_for_llm(conv_in, cfg), with the lines its passes 1 and 2 leave.
CleanOnce ==
    /\ conv_stage = "start"
    /\ pass1' = DropLongLines(Lines(ReplaceDataImg(RemoveNul(ReplaceCrLf(conv_in)))),
                              cfg.max_line_len)
    /\ pass2' = PruneLinkFarms(pass1', cfg.link_farm_run_threshold,
                               cfg.max_link_lines_to_keep)
    /\ cleaned' = CleanMarkdownForLlm(conv_in, cfg)
    /\ conv_stage' = "cleaned"
    /\ UNCHANGED <<conv_in, recleaned, crawled>>
    /\ UNCHANGED pipeVars
    /\ UNCHANGED fnVars

\* clean_markdown_for_llm applied to its own output.
CleanAgain ==
    /\ conv_stage = "cleaned"
    /\ recleaned' = CleanMarkdownForLlm(cleaned, cfg)
    /\ conv_stage' = "recleaned"
    /\ UNCHANGED <<conv_in, pass1, pass2, cleaned, crawled>>
    /\ UNCHANGED pipeVars
    /\ UNCHANGED fnVars

\* The search results the crawl of a text is run for: one URL, with a title
\* or a blank one.
TextResults == {r \in ProviderResults : r.url = <<"u">>}

\* The job of one search result made as at lines 103-113, then
\* crawl_to_llm_markdown for that job from line 209 on, conv_in being
\* parse_html's output.
CrawlText ==
    /\ conv_stage = "recleaned"
    /\ \E r \in TextResults :
          LET d == DedupLoop(<<r>>, <<"p">>, <<>>, {})
              j == d.jobs[1]
          IN  /\ results' = <<r>>
              /\ jobs' = d.jobs
              /\ seen_urls' = d.seen
              /\ crawled' = CrawlBody(j.query, j.url, 200, j.title, conv_in, cfg)
    /\ conv_stage' = "crawled"
    /\ UNCHANGED <<conv_in, pass1, pass2, cleaned, recleaned>>
    /\ UNCHANGED <<cfg, queries, results_per_query, pc, qi, tasks, permits, out, ret,
                   provider_calls>>
    /\ UNCHANGED fnVars

TextNext ==
    \/ CleanOnce
    \/ CleanAgain
    \/ CrawlText

TextSpec == TextInit /\ [][TextNext]_vars

(***************************************************************************)
(* truncate_at_char_boundary on its own, on texts with characters of 1 to  *)
(* 4 bytes, called as at lines 249 and 360 with cfg.max_md_chars.          *)
(***************************************************************************)

\* A text has at most MaxTruncLen characters; max_chars ranges over
\* 0..MaxTruncChars.
MaxTruncLen == 3

MaxTruncChars == 4

TruncChars == {"a", "E2", "E3", "E4"}

TruncInputs == SeqsUpTo(TruncChars, MaxTruncLen)

TruncConfigs ==
    [concurrency               : {1},
     require_html_content_type : {TRUE},
     drop_non_success_status   : {TRUE},
     max_md_chars              : 0..MaxTruncChars,
     min_md_chars              : {TextMinMd},
     max_link_lines_to_keep    : {1},
     link_farm_run_threshold   : {2},
     max_line_len              : {20},
     max_outline_headings      : {2}]

TruncInit ==
    /\ cfg \in TruncConfigs
    /\ queries = <<>>
    /\ results_per_query = 0
    /\ pc = "text"
    /\ qi = 1
    /\ results = <<>>
    /\ jobs = <<>>
    /\ seen_urls = {}
    /\ tasks = <<>>
    /\ permits = 0
    /\ out = <<>>
    /\ ret = "none"
    /\ provider_calls = <<>>
    /\ conv_in \in TruncInputs
    /\ conv_stage = "start"
    /\ pass1 = <<>>
    /\ pass2 = <<>>
    /\ cleaned = <<>>
    /\ recleaned = <<>>
    /\ crawled = ResNone
    /\ FnIdle

\* The byte index at which the returned text ends in s: the end of s when s
\* is returned whole (line 417), else end_byte after the loop (line 428).
TruncateCut(s, max_chars) ==
    IF Len(s) <= max_chars THEN ByteLen(s) ELSE EndByteLoop(s, max_chars, 0, 0)

\* truncate_at_char_boundary(conv_in, cfg.max_md_chars).
Truncate ==
    /\ conv_stage = "start"
    /\ truncated' = TruncateAtCharBoundary(conv_in, cfg.max_md_chars)
    /\ end_byte' = TruncateCut(conv_in, cfg.max_md_chars)
    /\ conv_stage' = "truncated"
    /\ UNCHANGED <<conv_in, pass1, pass2, cleaned, recleaned, crawled>>
    /\ UNCHANGED pipeVars
    /\ UNCHANGED extractVars

TruncNext == Truncate

TruncSpec == TruncInit /\ [][TruncNext]_vars

(***************************************************************************)
(* extract_main_content_html on its own, and its use at line 203           *)
(***************************************************************************)

\* The selectors of lines 266-277, in priority order.
Selectors ==
    << "main", "article", "[role=\"main\"]", "#content", "#main-content", "#main",
       ".content", ".markdown-body", ".rustdoc", "body" >>

\* inner.trim().len() > 200 (line 288).
ExtractMinInner == 200

Repeat(c, n) == [i \in 1..n |-> c]

\* The elements documents are made of: <main>, <article>, <div id="content">
\* and <p>, with the selectors each matches.
MainElem(inner) ==
    [open  |-> <<"<", "m", "a", "i", "n", ">">>,
     close |-> <<"<", "/", "m", "a", "i", "n", ">">>,
     sels  |-> {"main"},
     inner |-> inner]

ArticleElem(inner) ==
    [open  |-> <<"<", "a", "r", "t", "i", "c", "l", "e", ">">>,
     close |-> <<"<", "/", "a", "r", "t", "i", "c", "l", "e", ">">>,
     sels  |-> {"article"},
     inner |-> inner]

ContentDiv(inner) ==
    [open  |-> <<"<", "d", "i", "v", " ", "i", "d", "=", "\"", "c", "o", "n", "t", "e",
                 "n", "t", "\"", ">">>,
     close |-> <<"<", "/", "d", "i", "v", ">">>,
     sels  |-> {"#content"},
     inner |-> inner]

Para(inner) ==
    [open  |-> <<"<", "p", ">">>,
     close |-> <<"<", "/", "p", ">">>,
     sels  |-> {},
     inner |-> inner]

\* The inner markups of the elements: one character, exactly 200 bytes, 201
\* bytes, and 200 bytes between white space (202 bytes before the trim).
InnerTexts ==
    { <<"s">>,
      Repeat("x", ExtractMinInner),
      Repeat("x", ExtractMinInner + 1),
      <<" ">> \o Repeat("x", ExtractMinInner) \o <<"\n">> }

Elements ==
    UNION {{MainElem(t), ArticleElem(t), ContentDiv(t), Para(t)} : t \in InnerTexts}

\* A document body has at most MaxChildren elements.
MaxChildren == 2

Documents == SeqsUpTo(Elements, MaxChildren)

\* Element::html of an element.
OuterHtml(e) == e.open \o e.inner \o e.close

\* inner_html of the body: its children, serialised in order.
RECURSIVE BodyInner(_)
BodyInner(doc) ==
    IF doc = <<>> THEN <<>> ELSE OuterHtml(Head(doc)) \o BodyInner(Tail(doc))

\* The markup text of the document.
Html(doc) ==
    <<"<", "b", "o", "d", "y", ">">> \o BodyInner(doc)
        \o <<"<", "/", "b", "o", "d", "y", ">">>

RECURSIVE ChildInners(_, _)
ChildInners(doc, sel) ==
    IF doc = <<>> THEN <<>>
    ELSE (IF sel \in Head(doc).sels THEN <<Head(doc).inner>> ELSE <<>>)
         \o ChildInners(Tail(doc), sel)

\* doc.select(&selector), line 286: inner_html of the matching nodes in
\* document order, the body before its children.
SelectInners(doc, sel) ==
    (IF sel = "body" THEN <<BodyInner(doc)>> ELSE <<>>) \o ChildInners(doc, sel)

\* Line 288.
InnerLongEnough(inner) == ByteLen(Trim(inner)) > ExtractMinInner

\* format!(r#"<div id="extracted">{inner}</div>"#), line 289.
Wrap(inner) ==
    <<"<", "d", "i", "v", " ", "i", "d", "=", "\"", "e", "x", "t", "r", "a", "c", "t",
      "e", "d", "\"", ">">> \o inner \o <<"<", "/", "d", "i", "v", ">">>

\* The loop of lines 280-292 from selector k on: of each selector only the
\* first matching node (.next()) is looked at.
RECURSIVE ExtractLoop(_, _)
ExtractLoop(doc, k) ==
    IF k > Len(Selectors) THEN NoExtraction
    ELSE LET nodes == SelectInners(doc, Selectors[k])
         IN  IF nodes # <<>> /\ InnerLongEnough(nodes[1])
             THEN Extraction(Wrap(nodes[1]))
             ELSE ExtractLoop(doc, k + 1)

ExtractMainContentHtml(doc) == ExtractLoop(doc, 1)

\* Line 203: unwrap_or_else(|| html.clone()).
ExtractedHtml(x, html) == IF x.some THEN x.val ELSE html

\* The configuration plays no part in the extraction.
ExtractConfigs == {c \in TruncConfigs : c.max_md_chars = MaxTruncChars}

ExtractInit ==
    /\ cfg \in ExtractConfigs
    /\ queries = <<>>
    /\ results_per_query = 0
    /\ pc = "text"
    /\ qi = 1
    /\ results = <<>>
    /\ jobs = <<>>
    /\ seen_urls = {}
    /\ tasks = <<>>
    /\ permits = 0
    /\ out = <<>>
    /\ ret = "none"
    /\ provider_calls = <<>>
    /\ conv_in = <<>>
    /\ conv_stage = "start"
    /\ pass1 = <<>>
    /\ pass2 = <<>>
    /\ cleaned = <<>>
    /\ recleaned = <<>>
    /\ crawled = ResNone
    /\ TruncIdle
    /\ html_doc \in Documents
    /\ extracted = NoExtraction
    /\ extracted_html = <<>>

\* Lines 202-203.
Extract ==
    /\ conv_stage = "start"
    /\ extracted' = ExtractMainContentHtml(html_doc)
    /\ extracted_html' = ExtractedHtml(extracted', Html(html_doc))
    /\ conv_stage' = "extracted"
    /\ UNCHANGED <<html_doc, conv_in, pass1, pass2, cleaned, recleaned, crawled>>
    /\ UNCHANGED pipeVars
    /\ UNCHANGED truncVars

ExtractNext == Extract

ExtractSpec == ExtractInit /\ [][ExtractNext]_vars

(***************************************************************************)
(* Properties                                                              *)
(***************************************************************************)

Range(f) == {f[i] : i \in DOMAIN f}

Finished(t) == t.pc \in {"done", "joined"}

Holders == {i \in 1..Len(tasks) : tasks[i].pc \in {"holding", "reading"}}

\* C1: the markdown of every returned Page has at most max_md_chars
\* characters.
C1_MarkdownWithinCap ==
    \A k \in 1..Len(out) : Len(out[k].markdown) <= cfg.max_md_chars

\* C2: no two Jobs of one invocation have the same URL (and the dedup set
\* is the set of the jobs' URLs).
C2_NoDuplicateJobUrls ==
    /\ \A i, j \in 1..Len(jobs) : i # j => jobs[i].url # jobs[j].url
    /\ seen_urls = {jobs[i].url : i \in 1..Len(jobs)}

\* A provider answer repeated a URL already seen, and two jobs were built.
C2_Witness == "dup" \in Range(provider_calls) /\ Len(jobs) = 2

\* C3: at most cfg.concurrency tasks hold a permit, and every permit not
\* held by a task between acquire and its end is back in the semaphore:
\* finished tasks hold none, whatever their result.
C3_PermitsBounded ==
    /\ Cardinality(Holders) <= cfg.concurrency
    /\ pc \in {"spawn", "join"} => permits + Cardinality(Holders) = cfg.concurrency
    /\ permits >= 0

\* With one permit: a task failed, gave its permit back, and the other task
\* holds it.
C3_Witness ==
    /\ cfg.concurrency = 1
    /\ \E i, j \in 1..Len(tasks) :
          /\ Finished(tasks[i]) /\ tasks[i].res.kind = "err"
          /\ tasks[j].pc = "holding"

\* C4: a task whose fetch failed does not make the call fail, and when the
\* call returns, the Page of every task that produced one is in the list.
C4_FailureIsolated ==
    (\E i \in 1..Len(tasks) : Finished(tasks[i]) /\ tasks[i].res.kind = "err")
        => /\ ret # "err"
           /\ ret = "ok" =>
                 \A j \in 1..Len(tasks) :
                    tasks[j].res.kind = "page" => tasks[j].res.page \in Range(out)

\* The call returned Ok with a Page although another job's fetch failed.
C4_Witness ==
    /\ ret = "ok"
    /\ out # <<>>
    /\ \E i \in 1..Len(tasks) : tasks[i].res.kind = "err"

\* C5: once the provider calls succeeded and the client is built, the call
\* is never stuck before it returns: some step is always possible, for
\* every value of cfg.concurrency.
C5_NeverStuck == pc \in {"spawn", "join"} => ENABLED Next

\* C6: a failed provider call makes the call return an error: no page, no
\* task.
C6_ProviderErrorFatal ==
    "err" \in Range(provider_calls)
        => /\ pc = "done"
           /\ ret = "err"
           /\ out = <<>>
           /\ tasks = <<>>

\* The provider failed after earlier queries had produced jobs.
C6_Witness == "err" \in Range(provider_calls) /\ jobs # <<>>

\* What the claim C7 says of task i: its fetch succeeded (the response
\* arrived and its body was read) and it passed the status, content-type and
\* minimum-length filters.
FetchedAndPassed(i) ==
    LET t == tasks[i]
    IN  /\ t.status # 0
        /\ cfg.drop_non_success_status => t.status \in 200..299
        /\ cfg.require_html_content_type => t.ctype \in HtmlContentTypes
        /\ t.body.state = "read"
        /\ Len(CleanMarkdownForLlm(t.body.text, cfg)) >= cfg.min_md_chars

\* Why task i never awaited the body: the request failed, or one of the two
\* filters is set and applies to the response.
UnreadForCause(i) ==
    LET t == tasks[i]
    IN  \/ t.status = 0
        \/ cfg.drop_non_success_status /\ t.status \notin 200..299
        \/ /\ cfg.require_html_content_type
           /\ t.ctype # "none"
           /\ t.ctype \notin HtmlContentTypes

\* C7: on Ok, every Page has the query and url of exactly one Job, a Job has
\* at most one Page, the Pages' URLs are pairwise distinct, and a Job has a
\* Page exactly when it was fetched and passed the filters; a body is left
\* unread only by a failed request or a filter that is set.
C7_PagesMatchJobs ==
    ret = "ok" =>
        /\ \A k \in 1..Len(out) :
              Cardinality({i \in 1..Len(jobs) :
                              jobs[i].query = out[k].query /\ jobs[i].url = out[k].url}) = 1
        /\ \A i \in 1..Len(jobs) :
              Cardinality({k \in 1..Len(out) : out[k].url = jobs[i].url}) <= 1
        /\ \A k, l \in 1..Len(out) : k # l => out[k].url # out[l].url
        /\ Len(tasks) = Len(jobs)
        /\ \A i \in 1..Len(tasks) :
              /\ (\E k \in 1..Len(out) :
                     out[k].url = jobs[i].url /\ out[k].query = jobs[i].query)
                    <=> FetchedAndPassed(i)
              /\ tasks[i].body.state = "unread" => UnreadForCause(i)

\* The call returned Ok with two jobs, one with a Page and one that a filter
\* dropped.
C7_Witness ==
    /\ ret = "ok"
    /\ Len(jobs) = 2
    /\ Len(out) = 1
    /\ \E i \in 1..Len(tasks) : tasks[i].status # 0 /\ tasks[i].res.kind = "none"

\* C8: crawl_to_llm_markdown yields no Page (and no error) exactly when the
\* cleaned text has fewer than min_md_chars characters.
C8_MinLengthFilter ==
    conv_stage = "crawled" =>
        /\ crawled.kind # "err"
        /\ crawled.kind = "none" <=> Len(cleaned) < cfg.min_md_chars

\* A cleaned text one character short of min_md_chars was dropped.
C8_Witness ==
    /\ conv_stage = "crawled"
    /\ Len(cleaned) = cfg.min_md_chars - 1
    /\ crawled.kind = "none"

\* C9: clean_markdown_for_llm is idempotent.
C9_CleanIdempotent ==
    conv_stage \in {"recleaned", "crawled"} => recleaned = cleaned

\* The maximal run of link-only lines around line i of ls.
RECURSIVE RunStart(_, _)
RunStart(ls, i) == IF i > 1 /\ IsLinkOnly(ls[i - 1]) THEN RunStart(ls, i - 1) ELSE i

RECURSIVE RunEnd(_, _)
RunEnd(ls, i) == IF i < Len(ls) /\ IsLinkOnly(ls[i + 1]) THEN RunEnd(ls, i + 1) ELSE i

\* Whether line i of ls survives the link-farm pass, in the words of C10.
Survives(ls, i, threshold, keep) ==
    \/ ~IsLinkOnly(ls[i])
    \/ LET n == RunEnd(ls, i) - RunStart(ls, i) + 1
           k == i - RunStart(ls, i) + 1
       IN  IF n >= threshold THEN k <= keep ELSE TRUE

RECURSIVE SurvivorsFrom(_, _, _, _)
SurvivorsFrom(ls, i, threshold, keep) ==
    IF i > Len(ls) THEN <<>>
    ELSE (IF Survives(ls, i, threshold, keep) THEN <<ls[i]>> ELSE <<>>)
         \o SurvivorsFrom(ls, i + 1, threshold, keep)

\* C10: of every maximal run of n link-only lines the first min(n, keep)
\* survive when n >= threshold and all n otherwise; every other line
\* survives; the order is kept.
C10_LinkFarmPruned ==
    conv_stage # "start" =>
        pass2 = SurvivorsFrom(pass1, 1, cfg.link_farm_run_threshold,
                              cfg.max_link_lines_to_keep)

\* A run reached the threshold and lost lines, next to a line that is not
\* link-only.
C10_Witness ==
    /\ conv_stage # "start"
    /\ Len(pass2) < Len(pass1)
    /\ \E i \in 1..Len(pass2) : ~IsLinkOnly(pass2[i])

\* The heading texts of all the qualifying lines of ls, in document order.
RECURSIVE QualifyingHeadings(_)
QualifyingHeadings(ls) ==
    IF ls = <<>> THEN <<>>
    ELSE (IF IsHeading(Head(ls)) THEN <<HeadingRest(Head(ls))>> ELSE <<>>)
         \o QualifyingHeadings(Tail(ls))

\* C11: extract_outline returns at most max_outline_headings entries, for
\* every value of max_outline_headings (0 included), and they are the first
\* qualifying headings of the cleaned text in document order.
C11_OutlineBounded ==
    crawled.kind = "page" =>
        /\ Len(crawled.page.outline) <= cfg.max_outline_headings
        /\ crawled.page.outline =
              Take(QualifyingHeadings(Lines(cleaned)), cfg.max_outline_headings)

\* C12: with an empty query list or results_per_query = 0 the call returns
\* Ok with an empty list and does nothing else: the provider is never called,
\* the client (with the semaphore and the JoinSet) is never built, no task is
\* spawned, no job or dedup entry is made.
C12_ShortCircuitNoWork ==
    (queries = <<>> \/ results_per_query = 0) =>
        /\ pc \in {"start", "done"}
        /\ pc = "done" => ret = "ok"
        /\ out = <<>>
        /\ provider_calls = <<>>
        /\ tasks = <<>>
        /\ permits = 0
        /\ jobs = <<>>
        /\ seen_urls = {}

\* The call returned for results_per_query = 0 with queries to ask.
C12_Witness ==
    /\ queries # <<>>
    /\ results_per_query = 0
    /\ pc = "done"
    /\ ret = "ok"

Min(a, b) == IF a <= b THEN a ELSE b

\* The byte offsets of s at which a character starts or s ends.
CharBoundaries(s) == {ByteLen(SubSeq(s, 1, k)) : k \in 0..Len(s)}

\* C13: for a text of characters of 1 to 4 bytes and every max_chars,
\* truncate_at_char_boundary returns exactly the first
\* min(len_chars(s), max_chars) characters, and its byte cut is a character
\* boundary of s (the end of the returned characters).
C13_TruncateExact ==
    conv_stage = "truncated" =>
        /\ truncated = SubSeq(conv_in, 1, Min(Len(conv_in), cfg.max_md_chars))
        /\ end_byte \in CharBoundaries(conv_in)
        /\ end_byte = ByteLen(truncated)

\* A text was cut between two characters of several bytes.
C13_Witness ==
    /\ conv_stage = "truncated"
    /\ 0 < Len(truncated) /\ Len(truncated) < Len(conv_in)
    /\ Utf8Len(conv_in[Len(truncated)]) > 1
    /\ Utf8Len(conv_in[Len(truncated) + 1]) > 1

\* C14: no fetch task exists (so none has issued a request) before the
\* provider was called, successfully, for every query of the list; and once
\* a fetch task exists, no step changes the job list or the dedup set or
\* calls the provider again.
C14_SearchBeforeFetch ==
    [][/\ tasks' # <<>> =>
             /\ Len(provider_calls') = Len(queries')
             /\ "err" \notin Range(provider_calls')
       /\ tasks # <<>> =>
             /\ jobs' = jobs
             /\ seen_urls' = seen_urls
             /\ provider_calls' = provider_calls]_vars

\* Two queries were asked and a task has received a response.
C14_Witness ==
    /\ Len(queries) = 2
    /\ Len(provider_calls) = 2
    /\ \E i \in 1..Len(tasks) : tasks[i].status # 0

\* The index of the first entry of the answer rs that names url.
FirstIndex(rs, url) ==
    CHOOSE k \in 1..Len(rs) :
        rs[k].url = url /\ \A j \in 1..(k - 1) : rs[j].url # url

\* What C15 says of one provider answer rs to query q: the jobs js and the
\* dedup set seen become js2 and seen2.
FirstWins(rs, q, js, seen, js2, seen2) ==
    LET new == SubSeq(js2, Len(js) + 1, Len(js2))
    IN  /\ Len(js2) >= Len(js)
        /\ SubSeq(js2, 1, Len(js)) = js
        /\ seen2 = seen \cup {rs[k].url : k \in 1..Len(rs)}
        /\ \A k \in 1..Len(rs) :
              Cardinality({n \in 1..Len(new) : new[n].url = rs[k].url})
                 = IF rs[k].url \in seen THEN 0 ELSE 1
        /\ \A n \in 1..Len(new) :
              /\ new[n].query = q
              /\ \E k \in 1..Len(rs) :
                    /\ k = FirstIndex(rs, new[n].url)
                    /\ new[n].url = rs[k].url
                    /\ new[n].title = TitleOpt(rs[k].title)
        /\ \A n, m \in 1..Len(new) :
              n < m => FirstIndex(rs, new[n].url) < FirstIndex(rs, new[m].url)

\* C15: a URL gets its Job at its first occurrence, with the query being
\* asked then and the title of that occurrence (an answer's new URLs in the
\* answer's order); jobs already made are never changed, an occurrence of a
\* URL already in the dedup set adds nothing to the job list or the set, and
\* no other step changes either.
C15_FirstOccurrenceWins ==
    [][IF Len(provider_calls') > Len(provider_calls)
          /\ provider_calls'[Len(provider_calls')] # "err"
       THEN FirstWins(results', queries[qi], jobs, seen_urls, jobs', seen_urls')
       ELSE jobs' = jobs /\ seen_urls' = seen_urls]_vars

\* The second query's answer names the URL of the first query's job with
\* another title.
C15_Witness ==
    /\ pc = "search"
    /\ Len(provider_calls) = 2
    /\ jobs # <<>>
    /\ jobs[1].query = queries[1]
    /\ queries[1] # queries[2]
    /\ \E k \in 1..Len(results) :
          /\ results[k].url = jobs[1].url
          /\ TitleOpt(results[k].title) # jobs[1].title

\* C16: the status filter and then the content-type filter run before the
\* body is read. With drop_non_success_status set, a status outside 200..=299
\* ends the task with no Page, the headers not looked at and the body never
\* read; with require_html_content_type set, a missing or non-HTML content
\* type ends it with no Page and the body never read; a body is read only
\* after the response passed the filters that are set; and a response that
\* fails only conditions whose flag is unset goes on to the body read.
C16_FiltersBeforeBody ==
    \A i \in 1..Len(tasks) :
        LET t         == tasks[i]
            badStatus == t.status # 0 /\ t.status \notin 200..299
            badCtype  == t.ctype \in {"absent", "application/json"}
            dropped   == Finished(t) /\ t.res = ResNone /\ t.body.state = "unread"
        IN  /\ cfg.drop_non_success_status /\ badStatus
                  => dropped /\ t.ctype = "none"
            /\ cfg.require_html_content_type /\ badCtype => dropped
            /\ t.body.state # "unread" \/ t.pc = "reading"
                  => /\ t.status # 0
                     /\ t.ctype # "none"
                     /\ cfg.drop_non_success_status => ~badStatus
                     /\ cfg.require_html_content_type => ~badCtype
            /\ (/\ t.status # 0
                /\ ~(cfg.drop_non_success_status /\ badStatus)
                /\ ~(cfg.require_html_content_type /\ badCtype))
                  => t.body.state # "unread" \/ t.pc = "reading"

\* With only the content-type flag set: a 404 response with an HTML content
\* type gave a Page, and a response with a non-HTML content type was dropped
\* unread.
C16_Witness ==
    /\ ~cfg.drop_non_success_status
    /\ cfg.require_html_content_type
    /\ \E i, j \in 1..Len(tasks) :
          /\ tasks[i].status = 404
          /\ tasks[i].body.state = "read"
          /\ tasks[i].res.kind = "page"
          /\ tasks[j].ctype = "application/json"
          /\ tasks[j].res = ResNone
          /\ tasks[j].body.state = "unread"
          /\ Finished(tasks[j])

\* C17: each Job is consumed exactly once. The tasks are one per job, in job
\* order, for pairwise distinct URLs, and after the spawn loop there is a
\* task for every job; a task sends at most one GET (none before it holds a
\* permit, exactly one by the time it has ended); and a task that has ended,
\* with a Page, filtered or failed, never runs again: its request count and
\* its result stay as they are.
C17_JobConsumedOnce ==
    [][/\ Len(tasks) <= Len(tasks') /\ Len(tasks') <= Len(jobs')
       /\ \A i \in 1..Len(tasks') :
             /\ tasks'[i].url = jobs'[i].url
             /\ \A j \in 1..Len(tasks') : i # j => tasks'[i].url # tasks'[j].url
             /\ tasks'[i].gets <= 1
             /\ tasks'[i].pc = "waiting" => tasks'[i].gets = 0
             /\ Finished(tasks'[i]) => tasks'[i].gets = 1
       /\ (pc' = "join" \/ (pc' = "done" /\ ret' = "ok" /\ jobs' # <<>>))
             => Len(tasks') = Len(jobs')
       /\ \A i \in 1..Len(tasks) :
             Finished(tasks[i]) =>
                /\ Finished(tasks'[i])
                /\ tasks'[i].gets = tasks[i].gets
                /\ tasks'[i].res = tasks[i].res]_vars

\* The call returned Ok for two jobs, one whose request failed and one that
\* a filter dropped, each after a single GET.
C17_Witness ==
    /\ ret = "ok"
    /\ Len(jobs) = 2
    /\ \E i, j \in 1..Len(tasks) :
          /\ tasks[i].res = ResErr /\ tasks[i].status = 0 /\ tasks[i].gets = 1
          /\ tasks[j].res = ResNone /\ tasks[j].status # 0 /\ tasks[j].gets = 1
          /\ tasks[j].body.state = "unread"

\* The inner markups longer than 200 among the nodes matching selector k.
LongInners(doc, k) == SelectSeq(SelectInners(doc, Selectors[k]), InnerLongEnough)

\* C18: the result is the (wrapped) inner markup of the highest-priority
\* selector that matches any node whose inner markup is longer than 200,
\* also when that selector's first node is too short and a later one is long
\* enough; there is no extraction only when no selector has such a node, and
\* then line 203 hands on the document's markup as it is.
C18_AnyNodeOfBestSelector ==
    conv_stage = "extracted" =>
        LET ks == {k \in 1..Len(Selectors) : LongInners(html_doc, k) # <<>>}
        IN  IF ks = {}
            THEN extracted = NoExtraction /\ extracted_html = Html(html_doc)
            ELSE LET best == CHOOSE k \in ks : \A j \in ks : k <= j
                 IN  /\ extracted = Extraction(Wrap(LongInners(html_doc, best)[1]))
                     /\ extracted_html = extracted.val

\* The lines of the front matter of md: those after the opening fence, up to
\* the closing fence (or the end of md when the fence is missing).
RECURSIVE UpToFence(_)
UpToFence(ls) ==
    IF ls = <<>> \/ Head(ls) = <<"-", "-", "-">> THEN <<>>
    ELSE <<Head(ls)>> \o UpToFence(Tail(ls))

FrontMatterLines(md) ==
    LET ls == Lines(md)
    IN  IF ls # <<>> /\ Head(ls) = <<"-", "-", "-">> THEN UpToFence(Tail(ls)) ELSE <<>>

HasTitleLine(md) ==
    \E k \in 1..Len(FrontMatterLines(md)) :
        Take(FrontMatterLines(md)[k], 6) = <<"t", "i", "t", "l", "e", ":">>

\* The title C19 gives a Page: the search title unless blank, else the first
\* outline heading, else none.
ClaimedTitle(search_title, outline) ==
    IF Trim(search_title) # <<>> THEN SomeTitle(search_title)
    ELSE IF outline # <<>> THEN SomeTitle(outline[1])
    ELSE NoTitle

\* C19 as stated: the Page's title is the search title when not blank, else
\* the first outline heading, else absent; and the front matter of the
\* Page's markdown has a title: line exactly when the title is present.
C19_TitleAndFrontMatter ==
    conv_stage = "crawled" /\ crawled.kind = "page" =>
        /\ crawled.page.title = ClaimedTitle(results[1].title, crawled.page.outline)
        /\ HasTitleLine(crawled.page.markdown) <=> crawled.page.title.some

\* The number of characters of the assembled text up to the end of the key
\* of its title: line.
TitleKeyEnd(page) ==
    Len(FrontMatterFence) + Len(QueryKey) + Len(page.query) + 1
        + Len(UrlKey) + Len(page.url) + 1
        + Len(StatusKey) + Len(Decimal(page.status)) + 1
        + 6

\* C19 amended: the title is as stated; the front matter of the Page's
\* markdown has a title: line exactly when the title is present and the
\* final cap does not cut the assembled text before the end of that line's
\* key (max_md_chars characters are kept, the front matter included).
C19_TitleAndFrontMatterUnderCap ==
    conv_stage = "crawled" /\ crawled.kind = "page" =>
        /\ crawled.page.title = ClaimedTitle(results[1].title, crawled.page.outline)
        /\ HasTitleLine(crawled.page.markdown)
              <=> /\ crawled.page.title.some
                  /\ cfg.max_md_chars >= TitleKeyEnd(crawled.page)

\* A Page whose search title was blank took its title from the outline, and
\* its front matter has the title: line.
C19_Witness ==
    /\ conv_stage = "crawled"
    /\ crawled.kind = "page"
    /\ Trim(results[1].title) = <<>>
    /\ crawled.page.outline # <<>>
    /\ crawled.page.title = SomeTitle(crawled.page.outline[1])
    /\ HasTitleLine(crawled.page.markdown)

\* C20: the text clean_markdown_for_llm returns has no three consecutive
\* blank lines (blank as the cleaner tests it: nothing but white space),
\* also when the cap cut the text and the marker follows the cut.
C20_NoThreeBlankLines ==
    conv_stage # "start" =>
        LET ls == Lines(cleaned)
        IN  \A k \in 1..(Len(ls) - 2) :
               ~(IsBlankLine(ls[k]) /\ IsBlankLine(ls[k + 1]) /\ IsBlankLine(ls[k + 2]))

\* The positions of md at which the truncation marker starts.
MarkerStarts(md) ==
    {i \in 1..(Len(md) - Len(TruncMarker) + 1) :
        SubSeq(md, i, i + Len(TruncMarker) - 1) = TruncMarker}

\* C21: the markdown of a produced Page has at most max_md_chars + 20
\* characters, 20 being the length of one truncation marker, also when the
\* cleaner and the assembler both cut; and it carries at most one marker,
\* which is then at its very end.
C21_MarkdownWithinCapPlusMarker ==
    conv_stage = "crawled" /\ crawled.kind = "page" =>
        LET md == crawled.page.markdown
        IN  /\ Len(TruncMarker) = 20
            /\ Len(md) <= cfg.max_md_chars + 20
            /\ Cardinality(MarkerStarts(md)) <= 1
            /\ \A i \in MarkerStarts(md) : i = Len(md) - Len(TruncMarker) + 1

\* The cleaner cut the text and pushed its marker, and the assembler cut the
\* assembled text again: the Page's markdown has max_md_chars + 20 characters
\* and one marker.
C21_Witness ==
    /\ conv_stage = "crawled"
    /\ crawled.kind = "page"
    /\ Len(cleaned) = cfg.max_md_chars + 20
    /\ MarkerStarts(cleaned) # {}
    /\ Len(crawled.page.markdown) = cfg.max_md_chars + 20
    /\ Cardinality(MarkerStarts(crawled.page.markdown)) = 1

====
